---- MODULE Spec2Model ----
(***************************************************************************)
(* vana-cli: the `vana stats refiner` command (RefinerStatsCommand), the   *)
(* two signed stats clients it drives and the ConfigManager it reads its   *)
(* credentials from.  One behaviour of the model is one run of the         *)
(* command in a fresh process: the command line and the state of the       *)
(* machine (config file, keyring, file system) are chosen in Init, the     *)
(* answer of a backend is chosen when the awaited fetch settles.           *)
(*                                                                         *)
(* Three further specifications exercise single functions on wider inputs: *)
(* ClientSpec (the clients on error responses), AnalysisSpec               *)
(* (displayCombinedErrorAnalysis on parsed statistics, where the stats     *)
(* fields of results are records and stdout holds its lines) and MaskSpec  *)
(* (maskSensitiveValue on key values).  LiveSpec is Spec on fewer command  *)
(* lines, with the fairness that termination needs.                        *)
(*                                                                         *)
(* Three specifications are about the configuration over several calls    *)
(* and processes: ConfigSpec (the methods of one ConfigManager instance    *)
(* at a time), CommandSpec (the config commands and the lookup of the      *)
(* stats command, each in a process of its own) and RaceSpec (two          *)
(* `config set` processes at the same time).  In the first two, opts is    *)
(* the last call and results its outcome; in RaceSpec the per-process      *)
(* variables are functions of the process.                                 *)
(*                                                                         *)
(* Representation of JavaScript values                                     *)
(*   - the --id option and private keys are sequences of one-character     *)
(*     strings, because the code looks inside them (parseInt, startsWith); *)
(*     the value `undefined` of such a field is the sequence UndefSeq;     *)
(*   - endpoints, messages and JSON bodies are strings; `undefined` is the *)
(*     string Undefined, and "" is the empty string;                       *)
(*   - a statistics value is the JSON text the backend sent: StatsBody (an *)
(*     object of the documented shape), "{}" (an object without the        *)
(*     documented fields) or "null".                                       *)
(***************************************************************************)
EXTENDS Integers, Sequences, FiniteSets, TLC

VARIABLES
    opts,               \* the parsed command line (clipanion options)
    store,              \* the machine: file system, config file, keyring
    unprotectedConfig,  \* ConfigManager.unprotectedConfig (the cache)
    pc,                 \* position of execute()
    refinerIdNum,       \* execute(): refinerIdNum
    cfg,                \* execute(): { privateKey, queryApiUrl, refineApiUrl }
    lookups,            \* keys passed to getConfigValue, in call order
    results,            \* fetchCombinedStats(): results
    clients,            \* the clients constructed with new, in order
    requests,           \* the HTTP requests handed to fetch(), in order
    answers,            \* what each backend answered to its request
    stdout,             \* what was written to context.stdout
    stderr,             \* what was written to context.stderr
    exitCode            \* the value execute() returned (-1 while running)

vars == <<opts, store, unprotectedConfig, pc, refinerIdNum, cfg, lookups,
          results, clients, requests, answers, stdout, stderr, exitCode>>

-----------------------------------------------------------------------------
(* Bounds *)

\* the largest count of an error type
MaxCount == 2
\* the largest number of entries of an error-type mapping
MaxTallies == 3
\* the largest number of recent error records
MaxRecent == 4
\* the largest length of a private key value that is masked
MaxKeyLen == 11
\* the calls made on the configuration in one run of ConfigSpec
MaxCalls == 2


-----------------------------------------------------------------------------
(* JavaScript values *)

Undefined == "<undefined>"
UndefSeq == <<"<undefined>">>

\* !v for a string-valued field: undefined, null and "" are falsy
Truthy(v) == v # Undefined /\ v # "" /\ v # "null"

\* !v for a character-sequence field
TruthySeq(s) == s # UndefSeq /\ s # <<>>

-----------------------------------------------------------------------------
(* parseInt and validateRefinerId *)

\* the --id strings tried: the three malformed ids of the specification
\* (empty, non-numeric, negative), two numerals, a numeral followed by a
\* letter, and a hexadecimal literal
IdStrings ==
    { <<>>, <<"a", "b", "c">>, <<"-", "1">>,
      <<"0">>, <<"4", "5">>, <<"1", "2", "a">>, <<"0", "x", "1", "f">> }

WhiteSpace == {" ", "\t", "\n"}

DecimalDigits == {"0", "1", "2", "3", "4", "5", "6", "7", "8", "9"}

HexDigits == DecimalDigits \cup {"a", "b", "c", "d", "e", "f"}

DigitValue(c) ==
    CASE c = "0" -> 0 [] c = "1" -> 1 [] c = "2" -> 2 [] c = "3" -> 3
      [] c = "4" -> 4 [] c = "5" -> 5 [] c = "6" -> 6 [] c = "7" -> 7
      [] c = "8" -> 8 [] c = "9" -> 9 [] c = "a" -> 10 [] c = "b" -> 11
      [] c = "c" -> 12 [] c = "d" -> 13 [] c = "e" -> 14 [] c = "f" -> 15

\* s without its leading white space
RECURSIVE TrimStart(_)
TrimStart(s) ==
    IF s # <<>> /\ Head(s) \in WhiteSpace THEN TrimStart(Tail(s)) ELSE s

\* the longest prefix of s made of digits
RECURSIVE DigitPrefix(_, _)
DigitPrefix(s, digits) ==
    IF s # <<>> /\ Head(s) \in digits
    THEN <<Head(s)>> \o DigitPrefix(Tail(s), digits)
    ELSE <<>>

\* the number a digit string denotes in the given radix
RECURSIVE DigitsToNat(_, _)
DigitsToNat(d, radix) ==
    IF d = <<>> THEN 0
    ELSE DigitsToNat(SubSeq(d, 1, Len(d) - 1), radix) * radix
         + DigitValue(d[Len(d)])

\* parseInt(string) with no radix argument: leading white space is skipped,
\* one sign is read, a 0x prefix selects radix 16, then the longest run of
\* digits is read and whatever follows it is ignored; NaN if the run is empty
ParseInt(str) ==
    LET t == TrimStart(str)
        negative == t # <<>> /\ Head(t) = "-"
        u == IF t # <<>> /\ Head(t) \in {"-", "+"} THEN Tail(t) ELSE t
        hex == Len(u) >= 2 /\ u[1] = "0" /\ u[2] \in {"x", "X"}
        v == IF hex THEN SubSeq(u, 3, Len(u)) ELSE u
        radix == IF hex THEN 16 ELSE 10
        d == DigitPrefix(v, IF hex THEN HexDigits ELSE DecimalDigits)
        n == DigitsToNat(d, radix)
    IN  [nan |-> d = <<>>, n |-> IF negative THEN 0 - n ELSE n]

\* validateRefinerId: the number, or null when the id is rejected
IdAccepted(refinerId) ==
    LET p == ParseInt(refinerId) IN ~(p.nan \/ p.n < 0)

\* the base-10 numerals of the non-negative integers: digits only, no
\* leading zero except for "0" itself
IsDecimalNumeral(s) ==
    /\ s # <<>>
    /\ \A i \in 1..Len(s) : s[i] \in DecimalDigits
    /\ (Len(s) > 1 => s[1] # "0")

-----------------------------------------------------------------------------
(* ConfigManager: the TOML file, the keyring and the lookups *)

\* DEFAULT_CONFIG (the two URLs are abbreviated)
DEFAULT_CONFIG ==
    [ network |-> <<"m", "o", "k", "s", "h", "a">>,
      rpc_endpoint |-> <<"r", "p", "c">>,
      query_engine_endpoint |-> <<"d", "q", "e">> ]

UnprotectedKeys == {"network", "rpc_endpoint", "query_engine_endpoint"}

\* the characters that spell the name of a key
Spelling(key) ==
    CASE key = "network" -> <<"n", "e", "t", "w", "o", "r", "k">>
      [] key = "rpc_endpoint" ->
             <<"r", "p", "c", "_", "e", "n", "d", "p", "o", "i", "n", "t">>
      [] key = "query_engine_endpoint" ->
             <<"q", "u", "e", "r", "y", "_", "e", "n", "g", "i", "n", "e",
               "_", "e", "n", "d", "p", "o", "i", "n", "t">>
      [] OTHER -> <<"?">>

\* string.trim()
RECURSIVE TrimEnd(_)
TrimEnd(s) ==
    IF s # <<>> /\ s[Len(s)] \in WhiteSpace
    THEN TrimEnd(SubSeq(s, 1, Len(s) - 1))
    ELSE s

Trim(s) == TrimEnd(TrimStart(s))

\* the place of the first occurrence of a character in s, or 0
IndexOf(s, char) ==
    IF \E i \in 1..Len(s) : s[i] = char
    THEN CHOOSE i \in 1..Len(s) :
             s[i] = char /\ \A j \in 1..(i - 1) : s[j] # char
    ELSE 0

\* string.split('\n')
RECURSIVE SplitLines(_)
SplitLines(s) ==
    LET i == IndexOf(s, "\n")
    IN  IF i = 0 THEN <<s>>
        ELSE <<SubSeq(s, 1, i - 1)>> \o SplitLines(SubSeq(s, i + 1, Len(s)))

\* what parseToml makes of one line of text that generateToml did not mean
\* to be a line of its own: nothing for an empty line, a comment or a line
\* without '=', else the trimmed text before the first '=' as the key and
\* the trimmed text after it as the value
RawLine(text) ==
    LET trimmed == Trim(text)
        i == IndexOf(trimmed, "=")
        name == Trim(SubSeq(trimmed, 1, i - 1))
    IN  IF trimmed = <<>> \/ trimmed[1] = "#" \/ i = 0 \/ name = <<>>
        THEN <<>>
        ELSE << [key |-> IF \E k \in UnprotectedKeys : Spelling(k) = name
                         THEN CHOOSE k \in UnprotectedKeys :
                                  Spelling(k) = name
                         ELSE "?",
                 value |-> Trim(SubSeq(trimmed, i + 1, Len(trimmed)))] >>

RECURSIVE RawLines(_)
RawLines(texts) ==
    IF texts = <<>> THEN <<>>
    ELSE RawLine(Head(texts)) \o RawLines(Tail(texts))

\* the lines that `key = "${value}"` puts in the file: one line when the
\* value has no line break, else the line of the key with the text up to
\* the first break, followed by the rest of the value as lines of their own
EntryLines(key, value) ==
    LET texts == SplitLines(value)
    IN  << [key |-> key, value |-> Head(texts)] >> \o RawLines(Tail(texts))

\* generateToml: the `key = "value"` lines of the three keys.  The file is
\* kept as the key/value lines that parseToml will find in it; a value is
\* the text between the outer quotes
GenerateToml(config) ==
    EntryLines("network", config.network)
    \o EntryLines("rpc_endpoint", config.rpc_endpoint)
    \o EntryLines("query_engine_endpoint", config.query_engine_endpoint)

\* .replace(/['"]/g, ''): s without its quote characters
RECURSIVE RemoveQuotes(_)
RemoveQuotes(s) ==
    IF s = <<>> THEN <<>>
    ELSE IF Head(s) \in {"'", "\""} THEN RemoveQuotes(Tail(s))
         ELSE <<Head(s)>> \o RemoveQuotes(Tail(s))

\* parseToml: the lines of the three known keys, later lines winning,
\* merged over DEFAULT_CONFIG; lines of any other key are dropped
RECURSIVE ParseLines(_, _)
ParseLines(lines, config) ==
    IF lines = <<>> THEN config
    ELSE LET line == Head(lines)
         IN  ParseLines(Tail(lines),
                 IF line.key \in UnprotectedKeys
                 THEN [config EXCEPT ![line.key] = RemoveQuotes(line.value)]
                 ELSE config)

ParseToml(content) == ParseLines(content, DEFAULT_CONFIG)

\* the in-memory cache before the first read: unprotectedConfig = null
NullConfig ==
    [ network |-> UndefSeq, rpc_endpoint |-> UndefSeq,
      query_engine_endpoint |-> UndefSeq ]

\* writeUnprotectedConfig: mkdir and writeFile, either of which may fail
WriteUnprotectedConfig(st, config) ==
    IF st.mkdirOk /\ st.writeOk
    THEN [threw |-> FALSE,
          store |-> [st EXCEPT !.fileExists = TRUE,
                               !.content = GenerateToml(config)]]
    ELSE [threw |-> TRUE, store |-> st]

\* Initialize, had it written the defaults whether or not the file exists
Initialize_Overwrite(st) ==
    IF ~st.mkdirOk THEN [threw |-> TRUE, store |-> st]
    ELSE WriteUnprotectedConfig(st, DEFAULT_CONFIG)

\* initialize: create the directory, and the file with the defaults when
\* fs.access fails; every failure is rethrown as 'Failed to initialize config'
Initialize(st) ==
    IF ~st.mkdirOk THEN [threw |-> TRUE, store |-> st]
    ELSE IF st.fileExists THEN [threw |-> FALSE, store |-> st]
    ELSE WriteUnprotectedConfig(st, DEFAULT_CONFIG)

\* getUnprotectedConfig: the cache if set, else the parsed file, else the
\* defaults when the file cannot be read
GetUnprotectedConfig(cache, st) ==
    IF cache # NullConfig THEN cache
    ELSE IF st.fileExists THEN ParseToml(st.content)
    ELSE DEFAULT_CONFIG

\* getProtectedConfig: the keyring password, or nothing when the keyring
\* has no entry or cannot be reached
GetProtectedConfig(st) ==
    IF st.keyringOk /\ TruthySeq(st.password) THEN st.password ELSE UndefSeq

\* getConfigValue: config[key] of { ...unprotected, ...protected }; a key
\* that is in neither part reads as undefined.  It has no throwing path.
GetConfigValue(key, cache, st) ==
    LET unprotected == GetUnprotectedConfig(cache, st)
    IN  IF key = "wallet_private_key" THEN GetProtectedConfig(st)
        ELSE IF key \in DOMAIN unprotected THEN unprotected[key]
        ELSE UndefSeq

\* config[key] = value, on an object that may not have the key yet
SetKey(config, key, value) ==
    [k \in DOMAIN config \cup {key} |->
         IF k = key THEN value ELSE config[k]]

Vana == <<"v", "a", "n", "a">>

\* ['vana', 'moksha'].includes(value)
ValidNetwork(value) == value \in {Vana, <<"m", "o", "k", "s", "h", "a">>}

\* setUnprotectedConfig: read the configuration (which fills the cache),
\* validate a network value, assign the key on the cached object itself,
\* write the file, and keep the object as the cache
SetUnprotectedConfig(key, value, cache, st) ==
    LET config == GetUnprotectedConfig(cache, st)
        changed == SetKey(config, key, value)
        written == WriteUnprotectedConfig(st, changed)
    IN  IF key = "network" /\ ~ValidNetwork(value)
        THEN [threw |-> TRUE, message |-> "Invalid network value",
              cache |-> config, store |-> st]
        ELSE IF written.threw
        THEN [threw |-> TRUE, message |-> "Failed to write config file",
              cache |-> changed, store |-> st]
        ELSE [threw |-> FALSE, message |-> Undefined,
              cache |-> changed, store |-> written.store]

\* setProtectedConfig: keytar.setPassword, whose failure is rethrown
SetProtectedConfig(key, value, cache, st) ==
    IF st.keyringOk
    THEN [threw |-> FALSE, message |-> Undefined, cache |-> cache,
          store |-> [st EXCEPT !.password = value]]
    ELSE [threw |-> TRUE, message |-> "Failed to store in keyring",
          cache |-> cache, store |-> st]

\* IsProtectedKey, had no key been protected
IsProtectedKey_None(key) == FALSE

\* isProtectedKey
IsProtectedKey(key) == key = "wallet_private_key"

\* setConfig
SetConfig(key, value, cache, st) ==
    IF IsProtectedKey(key) THEN SetProtectedConfig(key, value, cache, st)
    ELSE SetUnprotectedConfig(key, value, cache, st)

\* reset: write the defaults, drop the cache, and delete the keyring entry,
\* ignoring a failure of the deletion
Reset(cache, st) ==
    LET written == WriteUnprotectedConfig(st, DEFAULT_CONFIG)
    IN  IF written.threw
        THEN [threw |-> TRUE, message |-> "Failed to write config file",
              cache |-> cache, store |-> st]
        ELSE [threw |-> FALSE, message |-> Undefined, cache |-> NullConfig,
              store |-> IF st.keyringOk
                        THEN [written.store EXCEPT !.password = UndefSeq]
                        ELSE written.store]

-----------------------------------------------------------------------------
(* The stats clients: QueryEngineClient and RefinementServiceClient *)

\* a well-formed key: "k" stands for the 64 hex digits of a 32-byte key
KeyBare == <<"k">>
KeyPrefixed == <<"0", "x", "k">>
\* a key that is not hex
KeyBad == <<"z">>
\* a key of hex digits that is not 32 bytes long
KeyLong == <<"k", "k">>

\* privateKey.startsWith('0x') ? privateKey : `0x${privateKey}`
FormatPrivateKey(privateKey) ==
    IF Len(privateKey) >= 2 /\ privateKey[1] = "0" /\ privateKey[2] = "x"
    THEN privateKey
    ELSE <<"0", "x">> \o privateKey

\* WalletAccepts, had the wallet taken any key
WalletAccepts_AnyKey(formattedPrivateKey) == TRUE

\* new ethers.Wallet(key) throws unless key is 0x and 32 bytes of hex
WalletAccepts(formattedPrivateKey) == formattedPrivateKey = KeyPrefixed

\* refinerId.toString(): the decimal digits of a non-negative integer
RECURSIVE NumberToString(_)
NumberToString(n) ==
    LET digit == << "0", "1", "2", "3", "4", "5", "6", "7", "8", "9" >>
    IN  IF n < 10 THEN << digit[n + 1] >>
        ELSE Append(NumberToString(n \div 10), digit[(n % 10) + 1])

\* SignMessage, had the message signed not been the refiner id
SignMessage_NoMessage(formattedPrivateKey, message) ==
    [key |-> formattedPrivateKey, message |-> <<>>]

\* wallet.signMessage(message): deterministic, and a function of the key
\* and the message only
SignMessage(formattedPrivateKey, message) ==
    [key |-> formattedPrivateKey, message |-> message]

\* the JSON text of a statistics object of the documented shape, with
\* non-zero totals and error tallies as in EXAMPLE_REFINER_STATS, so that
\* every section of the report is written for it
StatsBody == "{stats}"

\* what a backend may answer.  body.parses says whether JSON.parse accepts
\* body.text; detail and message are the fields of the parsed object
Body(text, parses, detail, message) ==
    [text |-> text, parses |-> parses, detail |-> detail, message |-> message]

\* an answer of the backend, or no answer at all (fetch rejects)
Response(failed, ok, status, statusText, body) ==
    [failed |-> failed, ok |-> ok, status |-> status,
     statusText |-> statusText, body |-> body]

Responses ==
    { Response(FALSE, TRUE, "200", "OK",
               Body(StatsBody, TRUE, Undefined, Undefined)),
      Response(FALSE, TRUE, "200", "OK",
               Body("{}", TRUE, Undefined, Undefined)),
      Response(FALSE, TRUE, "200", "OK",
               Body("null", TRUE, Undefined, Undefined)),
      Response(FALSE, FALSE, "404", "Not Found",
               Body("{\"detail\":\"Refiner not found\"}", TRUE,
                    "Refiner not found", Undefined)),
      Response(TRUE, FALSE, "", "", Body("", FALSE, Undefined, Undefined)) }

\* the bodies a backend may send with an error status: empty, plain text,
\* JSON objects with and without the detail and message fields (the empty
\* string is a falsy field), and the JSON value null
ErrorBodies ==
    { Body("", FALSE, Undefined, Undefined),
      Body("Bad Gateway", FALSE, Undefined, Undefined),
      Body("{\"detail\":\"Refiner not found\"}", TRUE,
           "Refiner not found", Undefined),
      Body("{\"message\":\"Forbidden\"}", TRUE, Undefined, "Forbidden"),
      Body("{\"detail\":\"Refiner not found\",\"message\":\"Forbidden\"}",
           TRUE, "Refiner not found", "Forbidden"),
      Body("{\"detail\":\"\",\"message\":\"Forbidden\"}", TRUE,
           "", "Forbidden"),
      Body("{\"detail\":\"\"}", TRUE, "", Undefined),
      Body("{\"error\":\"Forbidden\"}", TRUE, Undefined, Undefined),
      Body("{}", TRUE, Undefined, Undefined),
      Body("null", TRUE, Undefined, Undefined) }

\* the non-2xx answers: response.ok is false
ErrorResponses ==
    { Response(FALSE, FALSE, st[1], st[2], body) :
          st \in { <<"404", "Not Found">>,
                   <<"500", "Internal Server Error">>,
                   <<"502", "">> },
          body \in ErrorBodies }

\* ErrorMessage, had the message field been preferred to the detail field
ErrorMessage_MessageFirst(response) ==
    LET fallback == "HTTP " \o response.status \o ": " \o response.statusText
        body == response.body
    IN  IF body.parses /\ body.text # "null"
        THEN IF Truthy(body.message) THEN body.message
             ELSE IF Truthy(body.detail) THEN body.detail
             ELSE fallback
        ELSE IF body.text # "" THEN body.text ELSE fallback

\* the message of the Error thrown for a non-2xx response
ErrorMessage(response) ==
    LET fallback == "HTTP " \o response.status \o ": " \o response.statusText
        body == response.body
    IN  IF body.parses /\ body.text # "null"
        THEN IF Truthy(body.detail) THEN body.detail
             ELSE IF Truthy(body.message) THEN body.message
             ELSE fallback
        ELSE IF body.text # "" THEN body.text ELSE fallback

\* GetRefinerStats, had a request that fetch() rejected been sent again
GetRefinerStats_Retry(source, baseUrl, refinerId, privateKey, response) ==
    LET formattedPrivateKey == FormatPrivateKey(privateKey)
        message == NumberToString(refinerId)
        request == [source |-> source, baseUrl |-> baseUrl,
                    refinerId |-> refinerId,
                    signature |-> SignMessage(formattedPrivateKey, message)]
    IN  IF ~WalletAccepts(formattedPrivateKey)
        THEN [threw |-> TRUE, value |-> Undefined,
              message |-> "invalid private key", sent |-> <<>>]
        ELSE IF response.failed
        THEN [threw |-> TRUE, value |-> Undefined,
              message |-> "fetch failed", sent |-> <<request, request>>]
        ELSE IF ~response.ok
        THEN [threw |-> TRUE, value |-> Undefined,
              message |-> ErrorMessage(response), sent |-> <<request>>]
        ELSE IF ~response.body.parses
        THEN [threw |-> TRUE, value |-> Undefined,
              message |-> "Unexpected token in JSON", sent |-> <<request>>]
        ELSE [threw |-> FALSE, value |-> response.body.text,
              message |-> Undefined, sent |-> <<request>>]

\* getRefinerIngestionStats / getRefinerExecutionStats: sign, send one GET,
\* throw on a non-2xx answer, else return the parsed body.  The result says
\* whether the call threw, the value or the message, and the request sent
\* (none when signing failed)
GetRefinerStats(source, baseUrl, refinerId, privateKey, response) ==
    LET formattedPrivateKey == FormatPrivateKey(privateKey)
        message == NumberToString(refinerId)
        request == [source |-> source, baseUrl |-> baseUrl,
                    refinerId |-> refinerId,
                    signature |-> SignMessage(formattedPrivateKey, message)]
    IN  IF ~WalletAccepts(formattedPrivateKey)
        THEN [threw |-> TRUE, value |-> Undefined,
              message |-> "invalid private key", sent |-> <<>>]
        ELSE IF response.failed
        THEN [threw |-> TRUE, value |-> Undefined,
              message |-> "fetch failed", sent |-> <<request>>]
        ELSE IF ~response.ok
        THEN [threw |-> TRUE, value |-> Undefined,
              message |-> ErrorMessage(response), sent |-> <<request>>]
        ELSE IF ~response.body.parses
        THEN [threw |-> TRUE, value |-> Undefined,
              message |-> "Unexpected token in JSON", sent |-> <<request>>]
        ELSE [threw |-> FALSE, value |-> response.body.text,
              message |-> Undefined, sent |-> <<request>>]

-----------------------------------------------------------------------------
(* RefinerStatsCommand: messages and rendering *)

MsgInvalidId == "Invalid refiner ID. Must be a non-negative number."
MsgNoKey == "No private key provided."
MsgNoEndpoint ==
    "At least one API endpoint is required (Query Engine or Refinement Service)."
MsgNoData == "No data found for this refiner in either service"
MsgSuccess == "Refiner stats retrieved completed successfully"
MsgAlpha == "Alpha software: Verify all data independently before making decisions"
MsgUnexpected == "Unexpected error: "

\* MessageHandler: error and warning write to stderr, success and write to
\* stdout; an entry keeps the method that wrote it and its text
Entry(kind, text) == [kind |-> kind, text |-> text]

\* the result of a display method: what it wrote, and whether it threw
Wrote(texts) ==
    [out |-> [i \in 1..Len(texts) |-> Entry("write", texts[i])],
     threw |-> FALSE]
Threw(texts) ==
    [out |-> [i \in 1..Len(texts) |-> Entry("write", texts[i])],
     threw |-> TRUE]

\* run b after a, unless a threw
Then(a, b) ==
    IF a.threw THEN a ELSE [out |-> a.out \o b.out, threw |-> b.threw]

\* reading a field of stats and calling a method on it throws a TypeError
\* when the parsed body has no such field
LacksFields(stats) == stats = "{}"

\* displayVerboseInfo
DisplayVerboseInfo(config) ==
    Wrote(<< "Comprehensive Refiner Statistics", "Refiner ID",
             IF TruthySeq(config.queryApiUrl)
             THEN "Query Engine API: url"
             ELSE "Query Engine API: Not configured",
             IF TruthySeq(config.refineApiUrl)
             THEN "Refinement Service API: url"
             ELSE "Refinement Service API: Not configured",
             "Private Key: masked" >>)

\* displayNoDataMessage
DisplayNoDataMessage(combinedStats) ==
    Wrote(<< "No Data Found", "Data Availability:",
             IF Truthy(combinedStats.ingestion_error)
             THEN "Query Engine: " \o combinedStats.ingestion_error
             ELSE IF Truthy(combinedStats.ingestion_stats)
             THEN "Query Engine: Connected (no data ingested)"
             ELSE "Query Engine: Not configured",
             IF Truthy(combinedStats.execution_error)
             THEN "Refinement Service: " \o combinedStats.execution_error
             ELSE IF Truthy(combinedStats.execution_stats)
             THEN "Refinement Service: Connected (no jobs processed)"
             ELSE "Refinement Service: Not configured",
             "This could mean:" >>)

\* displayJobExecutionStats
DisplayJobExecutionStats(stats) ==
    IF LacksFields(stats) THEN Threw(<< "Refiner Execution" >>)
    ELSE Wrote(<< "Refiner Execution", "Total Jobs" >>)

\* displayDataIngestionStats
DisplayDataIngestionStats(stats) ==
    IF LacksFields(stats) THEN Threw(<< "Data Ingestion" >>)
    ELSE Wrote(<< "Data Ingestion", "File Contributions" >>)

\* displayQueryExecutionStats
DisplayQueryExecutionStats(stats) ==
    IF LacksFields(stats) THEN Threw(<< "Query Execution" >>)
    ELSE Wrote(<< "Query Execution", "Total Queries" >>)

\* displayCombinedErrorAnalysis
DisplayCombinedErrorAnalysis(combinedStats) ==
    IF \/ Truthy(combinedStats.ingestion_stats)
          /\ LacksFields(combinedStats.ingestion_stats)
       \/ Truthy(combinedStats.execution_stats)
          /\ LacksFields(combinedStats.execution_stats)
    THEN Threw(<<>>)
    ELSE Wrote(<< "Error Analysis" >>)

\* displayTechnicalDetails
DisplayTechnicalDetails(combinedStats) ==
    Wrote(<< "Technical Details" >>
          \o (IF Truthy(combinedStats.execution_stats)
              THEN << "Service Status: Connected" >> ELSE <<>>)
          \o (IF Truthy(combinedStats.ingestion_stats)
              THEN << "Query Engine Status: Connected" >> ELSE <<>>))

\* displayFormattedStats
DisplayFormattedStats(combinedStats, verbose) ==
    LET header == Wrote(<< "Comprehensive Statistics" >>)
        execution ==
            IF Truthy(combinedStats.execution_stats)
            THEN DisplayJobExecutionStats(combinedStats.execution_stats)
            ELSE Wrote(<< "Refiner Execution", "No execution data available" >>
                       \o (IF Truthy(combinedStats.execution_error)
                           THEN << "Error: " \o combinedStats.execution_error >>
                           ELSE <<>>))
        ingestion ==
            IF Truthy(combinedStats.ingestion_stats)
            THEN DisplayDataIngestionStats(combinedStats.ingestion_stats)
            ELSE Wrote(<< "Data Ingestion", "No ingestion data available" >>
                       \o (IF Truthy(combinedStats.ingestion_error)
                           THEN << "Error: " \o combinedStats.ingestion_error >>
                           ELSE <<>>))
        queries ==
            IF Truthy(combinedStats.ingestion_stats)
            THEN DisplayQueryExecutionStats(combinedStats.ingestion_stats)
            ELSE Wrote(<<>>)
        analysis == DisplayCombinedErrorAnalysis(combinedStats)
        technical ==
            IF verbose THEN DisplayTechnicalDetails(combinedStats)
            ELSE Wrote(<<>>)
    IN  Then(header, Then(execution, Then(ingestion,
            Then(queries, Then(analysis, technical)))))

\* JSON.stringify(combinedStats, null, 2)
JsonDump == Entry("write", "JSON.stringify(combinedStats)")

\* displayResults
DisplayResults(combinedStats, json, verbose, includeRaw) ==
    LET main == IF json THEN [out |-> <<JsonDump>>, threw |-> FALSE]
                ELSE DisplayFormattedStats(combinedStats, verbose)
        raw == IF includeRaw /\ ~json
               THEN [out |-> << Entry("write", "Raw API Responses"), JsonDump >>,
                     threw |-> FALSE]
               ELSE Wrote(<<>>)
    IN  Then(main, raw)

\* the catch block of execute()
Troubleshooting == Entry("write", "Troubleshooting")
\* UnexpectedError, had the catch block only warned
UnexpectedError_Warned(message) == Entry("warning", MsgUnexpected \o message)

\* msg.error(ErrorMessages.unexpectedError(error))
UnexpectedError(message) == Entry("error", MsgUnexpected \o message)

-----------------------------------------------------------------------------
(* One run of `vana stats refiner` *)

\* endpoints given on the command line, and the one written in the file
QueryUrl == <<"q">>
RefineUrl == <<"r">>
FileQueryUrl == <<"f", "q">>
FileRefineUrl == <<"f", "r">>

Options ==
    [ refinerId : IdStrings,
      privateKey : {UndefSeq, <<>>, KeyBare, KeyBad, KeyLong},
      queryEndpoint : {UndefSeq, <<>>, QueryUrl},
      refineEndpoint : {UndefSeq, RefineUrl},
      json : BOOLEAN, verbose : BOOLEAN, includeRaw : BOOLEAN ]

\* the config files tried: one with an empty query_engine_endpoint, and
\* one with its own query endpoint and a hand-written
\* refinement_service_endpoint line
FileContents ==
    { GenerateToml([DEFAULT_CONFIG EXCEPT !.query_engine_endpoint = <<>>]),
      GenerateToml([DEFAULT_CONFIG EXCEPT !.query_engine_endpoint = FileQueryUrl])
          \o << [key |-> "refinement_service_endpoint",
                 value |-> FileRefineUrl] >> }

\* the machines tried: the directory cannot be created; the file is
\* missing and can or cannot be written; the file exists.  The keyring
\* holds a key, holds none, or cannot be reached
FileSystems ==
    { [mkdirOk |-> FALSE, writeOk |-> FALSE, fileExists |-> FALSE,
       content |-> <<>>],
      [mkdirOk |-> TRUE, writeOk |-> FALSE, fileExists |-> FALSE,
       content |-> <<>>],
      [mkdirOk |-> TRUE, writeOk |-> TRUE, fileExists |-> FALSE,
       content |-> <<>>] }
    \cup { [mkdirOk |-> TRUE, writeOk |-> TRUE, fileExists |-> TRUE,
            content |-> c] : c \in FileContents }

Keyrings ==
    { [keyringOk |-> TRUE, password |-> KeyPrefixed],
      [keyringOk |-> TRUE, password |-> UndefSeq],
      [keyringOk |-> FALSE, password |-> UndefSeq] }

Stores ==
    { [mkdirOk |-> f.mkdirOk, writeOk |-> f.writeOk,
       fileExists |-> f.fileExists, content |-> f.content,
       keyringOk |-> k.keyringOk, password |-> k.password]
      : f \in FileSystems, k \in Keyrings }

\* no request was sent to the backend
NotAsked == Response(TRUE, FALSE, "not asked", "",
                     Body("", FALSE, Undefined, Undefined))

NoConfiguration ==
    [privateKey |-> UndefSeq, queryApiUrl |-> UndefSeq,
     refineApiUrl |-> UndefSeq]

\* results as fetchCombinedStats creates it
NewResults(refinerId) ==
    [refiner_id |-> refinerId,
     ingestion_stats |-> Undefined, execution_stats |-> Undefined,
     ingestion_error |-> Undefined, execution_error |-> Undefined]

Init ==
    /\ opts \in Options
    /\ store \in Stores
    /\ unprotectedConfig = NullConfig
    /\ pc = "validateRefinerId"
    /\ refinerIdNum = -1
    /\ cfg = NoConfiguration
    /\ lookups = <<>>
    /\ results = NewResults(-1)
    /\ clients = <<>>
    /\ requests = <<>>
    /\ answers = [ingestion |-> NotAsked, execution |-> NotAsked]
    /\ stdout = <<>>
    /\ stderr = <<>>
    /\ exitCode = -1

\* return code from execute()
Exit(code) ==
    /\ pc' = "exited"
    /\ exitCode' = code

\* execute(), lines 106-108: validateRefinerId
ValidateRefinerId ==
    /\ pc = "validateRefinerId"
    /\ LET parsed == ParseInt(opts.refinerId)
       IN  IF IdAccepted(opts.refinerId)
           THEN /\ refinerIdNum' = parsed.n
                /\ pc' = "getConfiguration"
                /\ UNCHANGED <<stderr, exitCode>>
           ELSE /\ stderr' = Append(stderr, Entry("error", MsgInvalidId))
                /\ Exit(1)
                /\ UNCHANGED refinerIdNum
    /\ UNCHANGED <<opts, store, unprotectedConfig, cfg, lookups, results,
                   clients, requests, answers, stdout>>

\* MissingKey, had the check been left out
MissingKey_Unchecked(privateKey) == FALSE

\* if (!privateKey), line 180
MissingKey(privateKey) == ~TruthySeq(privateKey)

\* if (!queryApiUrl && !refineApiUrl), line 210
MissingEndpoint(queryApiUrl, refineApiUrl) ==
    ~TruthySeq(queryApiUrl) /\ ~TruthySeq(refineApiUrl)

\* Resolve, had the configuration been asked first
Resolve_ConfigFirst(option, key, cache, st) ==
    IF TruthySeq(GetConfigValue(key, cache, st))
    THEN GetConfigValue(key, cache, st)
    ELSE option

\* one field of getConfiguration: the option, else the configuration lookup
Resolve(option, key, cache, st) ==
    IF TruthySeq(option) THEN option ELSE GetConfigValue(key, cache, st)

\* the getConfigValue call one field makes, if any
LookupOf(option, key) == IF TruthySeq(option) THEN <<>> ELSE <<key>>

\* execute(), lines 110-117: getConfiguration, then displayVerboseInfo
GetConfiguration ==
    /\ pc = "getConfiguration"
    /\ LET initialized == Initialize(store)
           st == initialized.store
           cache == GetUnprotectedConfig(unprotectedConfig, st)
           privateKey ==
               Resolve(opts.privateKey, "wallet_private_key", cache, st)
           queryApiUrl ==
               Resolve(opts.queryEndpoint, "query_engine_endpoint", cache, st)
           refineApiUrl ==
               Resolve(opts.refineEndpoint, "refinement_service_endpoint",
                       cache, st)
           keyLookup == LookupOf(opts.privateKey, "wallet_private_key")
           urlLookups ==
               LookupOf(opts.queryEndpoint, "query_engine_endpoint")
               \o LookupOf(opts.refineEndpoint, "refinement_service_endpoint")
           config == [privateKey |-> privateKey, queryApiUrl |-> queryApiUrl,
                      refineApiUrl |-> refineApiUrl]
       IN  IF initialized.threw
           THEN \* initialize() is outside every try of getConfiguration
                /\ stderr' = Append(stderr,
                       UnexpectedError("Failed to initialize config"))
                /\ stdout' = Append(stdout, Troubleshooting)
                /\ Exit(1)
                /\ UNCHANGED <<store, unprotectedConfig, cfg, lookups>>
           ELSE IF MissingKey(privateKey)
           THEN /\ store' = st
                /\ lookups' = keyLookup
                /\ unprotectedConfig' = cache
                /\ stderr' = Append(stderr, Entry("error", MsgNoKey))
                /\ stdout' = Append(stdout, Entry("write", "Set private key with"))
                /\ Exit(1)
                /\ UNCHANGED cfg
           ELSE IF MissingEndpoint(queryApiUrl, refineApiUrl)
           THEN /\ store' = st
                /\ lookups' = keyLookup \o urlLookups
                /\ unprotectedConfig' = cache
                /\ stderr' = Append(stderr, Entry("error", MsgNoEndpoint))
                /\ stdout' = Append(stdout, Entry("write", "Set API endpoints with"))
                /\ Exit(1)
                /\ UNCHANGED cfg
           ELSE /\ store' = st
                /\ lookups' = keyLookup \o urlLookups
                /\ unprotectedConfig' =
                       IF keyLookup \o urlLookups = <<>>
                       THEN unprotectedConfig ELSE cache
                /\ cfg' = config
                /\ stdout' = IF opts.verbose
                             THEN stdout \o DisplayVerboseInfo(config).out
                             ELSE stdout
                /\ pc' = "fetchIngestion"
                /\ UNCHANGED <<stderr, exitCode>>
    /\ UNCHANGED <<opts, refinerIdNum, results, clients, requests, answers>>
\* Record, had the catch block also filled the stats field
Record_BothFields(res, source, got) ==
    IF source = "ingestion"
    THEN IF got.threw
         THEN [res EXCEPT !.ingestion_error = got.message,
                          !.ingestion_stats = "{}"]
         ELSE [res EXCEPT !.ingestion_stats = got.value]
    ELSE IF got.threw
         THEN [res EXCEPT !.execution_error = got.message,
                          !.execution_stats = "{}"]
         ELSE [res EXCEPT !.execution_stats = got.value]

\* the try/catch around one client call: the value returned is stored as
\* the stats of the source, the message of what was thrown as its error
Record(res, source, got) ==
    IF source = "ingestion"
    THEN IF got.threw THEN [res EXCEPT !.ingestion_error = got.message]
         ELSE [res EXCEPT !.ingestion_stats = got.value]
    ELSE IF got.threw THEN [res EXCEPT !.execution_error = got.message]
         ELSE [res EXCEPT !.execution_stats = got.value]

\* the answer kept for a call: none when signing failed before fetch()
AnswerOf(got, response) == IF got.sent = <<>> THEN NotAsked ELSE response

\* if (queryApiUrl)
ShouldFetchIngestion(config) == TruthySeq(config.queryApiUrl)

\* ShouldFetchExecution, had the second fetch been skipped after a failure
\* of the first
ShouldFetchExecution_ShortCircuit(config, res) ==
    TruthySeq(config.refineApiUrl) /\ res.ingestion_error = Undefined

\* if (refineApiUrl)
ShouldFetchExecution(config, res) == TruthySeq(config.refineApiUrl)

\* the call up to fetch(): the client signs, and sends its request unless
\* signing threw; no answer has been received yet
Attempt(source, baseUrl, refinerId, privateKey) ==
    GetRefinerStats(source, baseUrl, refinerId, privateKey, NotAsked)

\* console.warn of the catch block of a source
Warning(source, got) ==
    Entry("warning",
          (IF source = "ingestion" THEN "Query Engine: "
           ELSE "Refinement Service: ") \o got.message)

\* fetchCombinedStats, lines 251-269: the ingestion block up to the await.
\* The client is constructed and called inside the try; when signing throws
\* the catch records and warns at once, else the request is in flight and
\* fetchCombinedStats is suspended at its await
FetchIngestionStats ==
    /\ pc = "fetchIngestion"
    /\ LET fresh == NewResults(refinerIdNum)
           got == Attempt("ingestion", cfg.queryApiUrl, refinerIdNum,
                          cfg.privateKey)
       IN  IF ~ShouldFetchIngestion(cfg)
           THEN /\ results' = fresh
                /\ pc' = "fetchExecution"
                /\ UNCHANGED <<clients, requests, stderr>>
           ELSE IF got.sent = <<>>
           THEN /\ clients' = Append(clients, "QueryEngineClient")
                /\ results' = Record(fresh, "ingestion", got)
                /\ stderr' = Append(stderr, Warning("ingestion", got))
                /\ pc' = "fetchExecution"
                /\ UNCHANGED requests
           ELSE /\ clients' = Append(clients, "QueryEngineClient")
                /\ requests' = requests \o got.sent
                /\ results' = fresh
                /\ pc' = "awaitIngestion"
                /\ UNCHANGED stderr
    /\ UNCHANGED <<opts, store, unprotectedConfig, refinerIdNum, cfg, lookups,
                   answers, stdout, exitCode>>

\* the awaited ingestion call settles: the backend answered, or fetch()
\* rejected; the try/catch records the outcome
IngestionFetchReturns ==
    /\ pc = "awaitIngestion"
    /\ \E response \in Responses :
           LET got == GetRefinerStats("ingestion", cfg.queryApiUrl,
                          refinerIdNum, cfg.privateKey, response)
           IN  /\ answers' = [answers EXCEPT
                                  !.ingestion = AnswerOf(got, response)]
               /\ results' = Record(results, "ingestion", got)
               /\ stderr' = IF got.threw
                            THEN Append(stderr, Warning("ingestion", got))
                            ELSE stderr
    /\ pc' = "fetchExecution"
    /\ UNCHANGED <<opts, store, unprotectedConfig, refinerIdNum, cfg, lookups,
                   clients, requests, stdout, exitCode>>

\* fetchCombinedStats, lines 271-285: the execution block up to the await;
\* it is reached only after the ingestion block has finished
FetchExecutionStats ==
    /\ pc = "fetchExecution"
    /\ LET got == Attempt("execution", cfg.refineApiUrl, refinerIdNum,
                          cfg.privateKey)
       IN  IF ~ShouldFetchExecution(cfg, results)
           THEN /\ pc' = "display"
                /\ UNCHANGED <<results, clients, requests, stderr>>
           ELSE IF got.sent = <<>>
           THEN /\ clients' = Append(clients, "RefinementServiceClient")
                /\ results' = Record(results, "execution", got)
                /\ stderr' = Append(stderr, Warning("execution", got))
                /\ pc' = "display"
                /\ UNCHANGED requests
           ELSE /\ clients' = Append(clients, "RefinementServiceClient")
                /\ requests' = requests \o got.sent
                /\ pc' = "awaitExecution"
                /\ UNCHANGED <<results, stderr>>
    /\ UNCHANGED <<opts, store, unprotectedConfig, refinerIdNum, cfg, lookups,
                   answers, stdout, exitCode>>

\* the awaited execution call settles
ExecutionFetchReturns ==
    /\ pc = "awaitExecution"
    /\ \E response \in Responses :
           LET got == GetRefinerStats("execution", cfg.refineApiUrl,
                          refinerIdNum, cfg.privateKey, response)
           IN  /\ answers' = [answers EXCEPT
                                  !.execution = AnswerOf(got, response)]
               /\ results' = Record(results, "execution", got)
               /\ stderr' = IF got.threw
                            THEN Append(stderr, Warning("execution", got))
                            ELSE stderr
    /\ pc' = "display"
    /\ UNCHANGED <<opts, store, unprotectedConfig, refinerIdNum, cfg, lookups,
                   clients, requests, stdout, exitCode>>

\* NoData, had it also required that no error was recorded
NoData_UnlessErrors(combinedStats) ==
    /\ ~Truthy(combinedStats.ingestion_stats)
    /\ ~Truthy(combinedStats.execution_stats)
    /\ ~Truthy(combinedStats.ingestion_error)
    /\ ~Truthy(combinedStats.execution_error)

\* if (!combinedStats.ingestion_stats && !combinedStats.execution_stats)
NoData(combinedStats) ==
    ~Truthy(combinedStats.ingestion_stats)
    /\ ~Truthy(combinedStats.execution_stats)

\* execute(), lines 122-144: the no-data exit, or displayResults and the
\* success message; an exception thrown while displaying reaches the catch
Display ==
    /\ pc = "display"
    /\ IF NoData(results)
       THEN /\ stderr' = Append(stderr, Entry("warning", MsgNoData))
            /\ stdout' = stdout \o DisplayNoDataMessage(results).out
            /\ Exit(0)
       ELSE LET shown == DisplayResults(results, opts.json, opts.verbose,
                                        opts.includeRaw)
            IN  IF shown.threw
                THEN /\ stdout' = (stdout \o shown.out) \o <<Troubleshooting>>
                     /\ stderr' = Append(stderr,
                            UnexpectedError("Cannot read properties of undefined"))
                     /\ Exit(1)
                ELSE /\ stdout' = (stdout \o shown.out)
                                  \o <<Entry("success", MsgSuccess)>>
                     /\ stderr' = IF opts.verbose
                                  THEN Append(stderr, Entry("warning", MsgAlpha))
                                  ELSE stderr
                     /\ Exit(0)
    /\ UNCHANGED <<opts, store, unprotectedConfig, refinerIdNum, cfg, lookups,
                   results, clients, requests, answers>>

Next ==
    \/ ValidateRefinerId
    \/ GetConfiguration
    \/ FetchIngestionStats
    \/ IngestionFetchReturns
    \/ FetchExecutionStats
    \/ ExecutionFetchReturns
    \/ Display

Spec == Init /\ [][Next]_vars

\* LiveSpec: a run in which every step that can be taken is taken in the
\* end: the command's own steps run to completion, and every awaited
\* external call settles (returns or throws)
\* the runs checked for termination: one --id that is accepted and one that
\* is rejected, with every other input of Init
LiveInit == Init /\ opts.refinerId \in { <<"4", "5">>, <<"a", "b", "c">> }

LiveSpec == LiveInit /\ [][Next]_vars /\ WF_vars(Next)

-----------------------------------------------------------------------------
(* The two stats clients called on answers with an error status *)

\* a command line that gives the id, the key and both endpoints
FullOptions ==
    [refinerId |-> <<"4", "5">>, privateKey |-> KeyBare,
     queryEndpoint |-> QueryUrl, refineEndpoint |-> RefineUrl,
     json |-> FALSE, verbose |-> FALSE, includeRaw |-> FALSE]

\* a machine with a config file and an empty keyring
PlainStore ==
    [mkdirOk |-> TRUE, writeOk |-> TRUE, fileExists |-> TRUE,
     content |-> GenerateToml(DEFAULT_CONFIG),
     keyringOk |-> TRUE, password |-> UndefSeq]

\* the state in which the clients are called: id validated, configuration
\* resolved from the options, nothing fetched or written yet
ClientInit ==
    /\ opts = FullOptions
    /\ store = PlainStore
    /\ unprotectedConfig = NullConfig
    /\ pc = "client"
    /\ refinerIdNum = ParseInt(FullOptions.refinerId).n
    /\ cfg = [privateKey |-> FullOptions.privateKey,
              queryApiUrl |-> FullOptions.queryEndpoint,
              refineApiUrl |-> FullOptions.refineEndpoint]
    /\ lookups = <<>>
    /\ results = NewResults(ParseInt(FullOptions.refinerId).n)
    /\ clients = <<>>
    /\ requests = <<>>
    /\ answers = [ingestion |-> NotAsked, execution |-> NotAsked]
    /\ stdout = <<>>
    /\ stderr = <<>>
    /\ exitCode = -1

\* one call of the client of a source, answered with an error status; the
\* caller keeps the stats returned or the message thrown
ClientCall(source, baseUrl) ==
    /\ pc = "client"
    /\ answers[source] = NotAsked
    /\ \E response \in ErrorResponses :
           LET got == GetRefinerStats(source, baseUrl, refinerIdNum,
                                      cfg.privateKey, response)
           IN  /\ requests' = requests \o got.sent
               /\ answers' = [answers EXCEPT ![source] = AnswerOf(got, response)]
               /\ results' = Record(results, source, got)
    /\ UNCHANGED <<opts, store, unprotectedConfig, pc, refinerIdNum, cfg,
                   lookups, clients, stdout, stderr, exitCode>>

\* QueryEngineClient.getRefinerIngestionStats
GetRefinerIngestionStats == ClientCall("ingestion", cfg.queryApiUrl)

\* RefinementServiceClient.getRefinerExecutionStats
GetRefinerExecutionStats == ClientCall("execution", cfg.refineApiUrl)

ClientNext ==
    \/ GetRefinerIngestionStats
    \/ GetRefinerExecutionStats

ClientSpec == ClientInit /\ [][ClientNext]_vars

-----------------------------------------------------------------------------
(* displayCombinedErrorAnalysis on parsed statistics *)

\* keys of error_types and query_errors_by_type
ErrorTypes == {"VALIDATION_ERROR", "TIMEOUT_ERROR", "NETWORK_ERROR"}

\* the error field of a recent_errors record
ErrorTexts == {"Container execution failed", "File validation failed"}

\* a Record<string, number> as Object.entries enumerates it: a sequence of
\* entries with distinct keys
TalliesOfLength(n) ==
    { t \in [1..n -> [type : ErrorTypes, count : 1..MaxCount]] :
          \A i, j \in 1..n : i # j => t[i].type # t[j].type }

Tallies == UNION { TalliesOfLength(n) : n \in 0..MaxTallies }

\* an empty mapping, and a mapping with one entry
SmallTallies == { <<>>, << [type |-> "TIMEOUT_ERROR", count |-> 1] >> }

RecentErrors == UNION { [1..n -> ErrorTexts] : n \in 0..MaxRecent }

\* ingestion_stats and execution_stats of a combined result: undefined, or
\* the parsed object with the fields the error analysis reads
NoIngestionStats == [present |-> FALSE, query_errors_by_type |-> <<>>]
IngestionStats(tallies) ==
    [present |-> TRUE, query_errors_by_type |-> tallies]
NoExecutionStats ==
    [present |-> FALSE, error_types |-> <<>>, recent_errors |-> <<>>]
ExecutionStats(tallies, recent) ==
    [present |-> TRUE, error_types |-> tallies, recent_errors |-> recent]

\* a combined result without errors
Combined(ingestion, execution) ==
    [refiner_id |-> 45,
     ingestion_stats |-> ingestion, execution_stats |-> execution,
     ingestion_error |-> Undefined, execution_error |-> Undefined]

\* a line written by msg.write: what it is, its text, and its number
Line(kind, text, n) == [kind |-> kind, text |-> text, n |-> n]

\* InsertByCount, had an entry been put before the entries of equal count
InsertByCount_BeforeEqual(sorted, entry) ==
    LET before == {i \in 1..Len(sorted) : sorted[i].count > entry.count}
        k == Cardinality(before)
    IN  SubSeq(sorted, 1, k) \o <<entry>> \o SubSeq(sorted, k + 1, Len(sorted))

\* one step of the stable sort with comparator b - a: the entry goes after
\* every entry whose count is not smaller
InsertByCount(sorted, entry) ==
    LET before == {i \in 1..Len(sorted) : sorted[i].count >= entry.count}
        k == Cardinality(before)
    IN  SubSeq(sorted, 1, k) \o <<entry>> \o SubSeq(sorted, k + 1, Len(sorted))

\* Object.entries(mapping).sort(([,a], [,b]) => b - a)
RECURSIVE SortByCount(_)
SortByCount(entries) ==
    IF entries = <<>> THEN <<>>
    ELSE InsertByCount(SortByCount(SubSeq(entries, 1, Len(entries) - 1)),
                       entries[Len(entries)])

\* the forEach over the sorted entries: one line per entry
TallyLines(kind, entries) ==
    LET sorted == SortByCount(entries)
    IN  [i \in 1..Len(sorted) |-> Line(kind, sorted[i].type, sorted[i].count)]

\* recent_errors.slice(0, 3)
RecentShown == 3

\* recent_errors.slice(0, 3).forEach: one numbered item per record
RecentLines(recent) ==
    LET shown == SubSeq(recent, 1,
                        IF Len(recent) < RecentShown THEN Len(recent)
                        ELSE RecentShown)
    IN  [i \in 1..Len(shown) |-> Line("recent error", shown[i], i)]

\* displayCombinedErrorAnalysis: the lines it writes
CombinedErrorAnalysis(combinedStats) ==
    LET ingestion == combinedStats.ingestion_stats
        execution == combinedStats.execution_stats
        hasQueryErrors ==
            ingestion.present /\ Len(ingestion.query_errors_by_type) > 0
        hasExecutionErrors ==
            execution.present /\ Len(execution.error_types) > 0
    IN  IF ~hasQueryErrors /\ ~hasExecutionErrors
        THEN <<>>
        ELSE << Line("title", "Error Analysis", 0) >>
             \o (IF hasQueryErrors
                 THEN << Line("heading", "Query Errors:", 0) >>
                      \o TallyLines("query error",
                                    ingestion.query_errors_by_type)
                 ELSE <<>>)
             \o (IF hasExecutionErrors
                 THEN << Line("heading", "Execution Errors:", 0) >>
                      \o TallyLines("execution error", execution.error_types)
                 ELSE <<>>)
             \o (IF execution.present /\ Len(execution.recent_errors) > 0
                 THEN << Line("heading", "Recent Execution Errors:", 0) >>
                      \o RecentLines(execution.recent_errors)
                 ELSE <<>>)

\* displayFormattedStats has written the sections before the error
\* analysis of a combined result with parsed statistics: every mapping is
\* tried for one source with a small one, or no stats, for the other, and
\* every list of recent errors
AnalysisInit ==
    /\ opts = FullOptions
    /\ store = PlainStore
    /\ unprotectedConfig = NullConfig
    /\ pc = "displayCombinedErrorAnalysis"
    /\ refinerIdNum = 45
    /\ cfg = [privateKey |-> FullOptions.privateKey,
              queryApiUrl |-> FullOptions.queryEndpoint,
              refineApiUrl |-> FullOptions.refineEndpoint]
    /\ lookups = <<>>
    /\ \/ \E t \in Tallies :
              \E e \in {NoExecutionStats}
                       \cup {ExecutionStats(u, r) : u \in SmallTallies,
                                                    r \in RecentErrors} :
                  results = Combined(IngestionStats(t), e)
       \/ \E t \in Tallies, r \in RecentErrors :
              \E i \in {NoIngestionStats}
                       \cup {IngestionStats(u) : u \in SmallTallies} :
                  results = Combined(i, ExecutionStats(t, r))
    /\ clients = <<"QueryEngineClient", "RefinementServiceClient">>
    /\ requests = <<>>
    /\ answers = [ingestion |-> NotAsked, execution |-> NotAsked]
    /\ stdout = <<>>
    /\ stderr = <<>>
    /\ exitCode = -1

\* the call of displayCombinedErrorAnalysis in displayFormattedStats
WriteErrorAnalysis ==
    /\ pc = "displayCombinedErrorAnalysis"
    /\ stdout' = stdout \o CombinedErrorAnalysis(results)
    /\ pc' = "displayTechnicalDetails"
    /\ UNCHANGED <<opts, store, unprotectedConfig, refinerIdNum, cfg, lookups,
                   results, clients, requests, answers, stderr, exitCode>>

AnalysisNext == WriteErrorAnalysis

AnalysisSpec == AnalysisInit /\ [][AnalysisNext]_vars

-----------------------------------------------------------------------------
(* maskSensitiveValue on the private key shown by displayVerboseInfo *)

\* String.prototype.substring(start, end): both indices are clamped to
\* 0..length and swapped when start > end
Substring(string, start, end) ==
    LET clamp(x) == IF x < 0 THEN 0
                    ELSE IF x > Len(string) THEN Len(string) ELSE x
        a == clamp(start)
        b == clamp(end)
    IN  IF a <= b THEN SubSeq(string, a + 1, b) ELSE SubSeq(string, b + 1, a)

Ellipsis == <<".", ".", ".">>

\* maskSensitiveValue(key, value)
MaskSensitiveValue(key, value) ==
    IF key = "wallet_private_key" /\ value # <<>>
    THEN IF Len(value) > 10
         THEN Substring(value, 0, 6) \o Ellipsis
              \o Substring(value, Len(value) - 4, Len(value))
         ELSE Substring(value, 0, 4) \o Ellipsis
              \o Substring(value, Len(value) - 2, Len(value))
    ELSE value

\* the characters of the key values tried
KeyChars == {"a", "f"}

\* the non-empty key values of up to MaxKeyLen characters
KeyValues == UNION { [1..n -> KeyChars] : n \in 1..MaxKeyLen }

\* execute() has resolved a non-empty private key and --verbose is set
MaskInit ==
    /\ opts = [FullOptions EXCEPT !.verbose = TRUE]
    /\ store = PlainStore
    /\ unprotectedConfig = NullConfig
    /\ pc = "displayVerboseInfo"
    /\ refinerIdNum = 45
    /\ \E value \in KeyValues :
           cfg = [privateKey |-> value,
                  queryApiUrl |-> FullOptions.queryEndpoint,
                  refineApiUrl |-> FullOptions.refineEndpoint]
    /\ lookups = <<>>
    /\ results = NewResults(-1)
    /\ clients = <<>>
    /\ requests = <<>>
    /\ answers = [ingestion |-> NotAsked, execution |-> NotAsked]
    /\ stdout = <<>>
    /\ stderr = <<>>
    /\ exitCode = -1

\* displayVerboseInfo, line 237: the 'Private Key' line with the masked key
WritePrivateKey ==
    /\ pc = "displayVerboseInfo"
    /\ stdout' = Append(stdout,
           Entry("Private Key",
                 MaskSensitiveValue("wallet_private_key", cfg.privateKey)))
    /\ pc' = "fetchIngestion"
    /\ UNCHANGED <<opts, store, unprotectedConfig, refinerIdNum, cfg, lookups,
                   results, clients, requests, answers, stderr, exitCode>>

MaskNext == WritePrivateKey

MaskSpec == MaskInit /\ [][MaskNext]_vars

-----------------------------------------------------------------------------
(* ConfigSpec: the ConfigManager and the config commands, on a machine that
   starts without a config file.  unprotectedConfig is the cache of the
   ConfigManager instance that is alive, opts the last call and its
   arguments, results its outcome together with the file system, keyring
   and cache it started from, pc the number of calls made so far. *)

ConfigKeys ==
    UnprotectedKeys \cup {"wallet_private_key", "refinement_service_endpoint"}

\* the values tried: a network name, a plain value, one with a quote
\* character, and one with a line break followed by the text `network=e`
PlainValue == <<"u">>
QuotedValue == <<"u", "'">>
BrokenValue == <<"u", "\n">> \o Spelling("network") \o <<"=", "e">>
ConfigValues == {Vana, PlainValue, QuotedValue, BrokenValue}

NoCall == [op |-> "none", key |-> "", value |-> <<>>]

Outcome(threw, message, st, cache) ==
    [threw |-> threw, message |-> message, store |-> st, cache |-> cache]

ConfigInit ==
    /\ opts = NoCall
    /\ \E writeOk \in BOOLEAN, keyringOk \in BOOLEAN :
           store = [mkdirOk |-> TRUE, writeOk |-> writeOk,
                    fileExists |-> FALSE, content |-> <<>>,
                    keyringOk |-> keyringOk, password |-> UndefSeq]
    /\ unprotectedConfig = NullConfig
    /\ pc = 0
    /\ refinerIdNum = -1
    /\ cfg = NoConfiguration
    /\ lookups = <<>>
    /\ results = Outcome(FALSE, Undefined, store, unprotectedConfig)
    /\ clients = <<>>
    /\ requests = <<>>
    /\ answers = [ingestion |-> NotAsked, execution |-> NotAsked]
    /\ stdout = <<>>
    /\ stderr = <<>>
    /\ exitCode = -1

\* what every call of a ConfigManager method leaves behind
Called(op, key, value, outcome, st, cache) ==
    /\ pc < MaxCalls
    /\ pc' = pc + 1
    /\ opts' = [op |-> op, key |-> key, value |-> value]
    /\ results' = Outcome(outcome.threw, outcome.message, store,
                          unprotectedConfig)
    /\ store' = st
    /\ unprotectedConfig' = cache
    /\ cfg' = NoConfiguration
    /\ lookups' = <<>>
    /\ UNCHANGED <<refinerIdNum, clients, requests, answers>>

\* configManager.initialize()
InitializeCall ==
    LET initialized == Initialize(store)
    IN  /\ Called("initialize", "", <<>>,
                  [threw |-> initialized.threw,
                   message |-> IF initialized.threw
                               THEN "Failed to initialize config"
                               ELSE Undefined],
                  initialized.store, unprotectedConfig)
        /\ UNCHANGED <<stdout, stderr, exitCode>>

\* configManager.setConfig(key, value)
SetConfigCall ==
    \E key \in ConfigKeys, value \in ConfigValues :
        LET set == SetConfig(key, value, unprotectedConfig, store)
        IN  /\ Called("setConfig", key, value, set, set.store, set.cache)
            /\ UNCHANGED <<stdout, stderr, exitCode>>

\* configManager.reset()
ResetCall ==
    LET reset == Reset(unprotectedConfig, store)
    IN  /\ Called("reset", "", <<>>, reset, reset.store, reset.cache)
        /\ UNCHANGED <<stdout, stderr, exitCode>>

\* configManager.getUnprotectedConfig(), which fills the cache
GetUnprotectedConfigCall ==
    /\ Called("getUnprotectedConfig", "", <<>>,
              [threw |-> FALSE, message |-> Undefined],
              store, GetUnprotectedConfig(unprotectedConfig, store))
    /\ UNCHANGED <<stdout, stderr, exitCode>>

\* the process ends and another one starts: a new ConfigManager instance,
\* on which no call has been made yet
NewProcess ==
    /\ unprotectedConfig # NullConfig
    /\ unprotectedConfig' = NullConfig
    /\ opts' = NoCall
    /\ results' = Outcome(FALSE, Undefined, store, NullConfig)
    /\ UNCHANGED <<store, pc, refinerIdNum, cfg, lookups, clients, requests,
                   answers, stdout, stderr, exitCode>>

\* between two calls the disk fills up or is freed, and the keyring is
\* locked or unlocked
Environment ==
    /\ \/ store' = [store EXCEPT !.writeOk = ~store.writeOk]
       \/ store' = [store EXCEPT !.keyringOk = ~store.keyringOk]
    /\ UNCHANGED <<opts, unprotectedConfig, pc, refinerIdNum, cfg, lookups,
                   results, clients, requests, answers, stdout, stderr,
                   exitCode>>

ConfigNext ==
    \/ InitializeCall
    \/ SetConfigCall
    \/ ResetCall
    \/ GetUnprotectedConfigCall
    \/ NewProcess
    \/ Environment

ConfigSpec == ConfigInit /\ [][ConfigNext]_vars

-----------------------------------------------------------------------------
(* CommandSpec: the config commands and the configuration lookup of the
   stats command, each run in a process of its own on the machine of
   ConfigSpec.  opts and results keep the last config command, cfg what the
   stats command resolved after it. *)

\* `vana config set <key> <value>` in a process of its own: initialize,
\* setConfig, and the success message; any exception is reported as
\* unexpected
ConfigSetCommand ==
    \E key \in ConfigKeys, value \in ConfigValues :
        LET initialized == Initialize(store)
            set == SetConfig(key, value, NullConfig, initialized.store)
            location == IF IsProtectedKey(key) THEN "OS keyring"
                        ELSE "~/.vana/cli.config.toml"
        IN  IF initialized.threw
            THEN /\ Called("config set", key, value,
                           [threw |-> TRUE,
                            message |-> "Failed to initialize config"],
                           store, NullConfig)
                 /\ stdout' = <<>>
                 /\ stderr' =
                        <<UnexpectedError("Failed to initialize config")>>
                 /\ exitCode' = 1
            ELSE IF set.threw
            THEN /\ Called("config set", key, value, set, set.store,
                           NullConfig)
                 /\ stdout' = <<>>
                 /\ stderr' = <<UnexpectedError(set.message)>>
                 /\ exitCode' = 1
            ELSE /\ Called("config set", key, value, set, set.store,
                           NullConfig)
                 /\ stdout' = << Entry("success",
                                   "Set " \o key \o " in " \o location) >>
                 /\ stderr' = <<>>
                 /\ exitCode' = 0

MsgSecretsCleared == "Protected values (like private keys) have been cleared"

\* `vana config init --reset` in a process of its own: reset, the success
\* message and the warning, then the current configuration
ConfigInitResetCommand ==
    LET reset == Reset(NullConfig, store)
    IN  /\ Called("config init --reset", "", <<>>, reset, reset.store,
                  NullConfig)
        /\ IF reset.threw
           THEN /\ stdout' = <<>>
                /\ stderr' = <<UnexpectedError(reset.message)>>
                /\ exitCode' = 1
           ELSE /\ stdout' = << Entry("success",
                                      "Configuration reset to defaults"),
                                Entry("write", "Current Configuration"),
                                Entry("write", "Configuration"),
                                Entry("info", "Config file"),
                                Entry("write", "Next steps") >>
                /\ stderr' = <<Entry("warning", MsgSecretsCleared)>>
                /\ exitCode' = 0

\* `vana stats refiner` without options, up to getConfiguration: initialize
\* and the three lookups
StatsGetConfiguration ==
    LET initialized == Initialize(store)
        st == initialized.store
        cache == GetUnprotectedConfig(NullConfig, st)
    IN  /\ pc < MaxCalls
        /\ pc' = pc + 1
        /\ ~initialized.threw
        /\ store' = st
        /\ cfg' = [privateKey |->
                       Resolve(UndefSeq, "wallet_private_key", cache, st),
                   queryApiUrl |->
                       Resolve(UndefSeq, "query_engine_endpoint", cache, st),
                   refineApiUrl |->
                       Resolve(UndefSeq, "refinement_service_endpoint",
                               cache, st)]
        /\ lookups' = << "wallet_private_key", "query_engine_endpoint",
                         "refinement_service_endpoint" >>
        /\ UNCHANGED <<opts, unprotectedConfig, refinerIdNum, results,
                       clients, requests, answers, stdout, stderr, exitCode>>

CommandNext ==
    \/ ConfigSetCommand
    \/ ConfigInitResetCommand
    \/ StatsGetConfiguration
    \/ Environment

CommandSpec == ConfigInit /\ [][CommandNext]_vars

-----------------------------------------------------------------------------
(* RaceSpec: two `vana config set` processes that run at the same time on
   one config file, each with a key of its own.  opts, unprotectedConfig,
   pc, stdout, stderr and exitCode have one entry per process; a step of a
   process is what it does between two of its file-system calls. *)

Procs == {"p1", "p2"}

RaceInit ==
    /\ \E k1 \in UnprotectedKeys, k2 \in UnprotectedKeys,
          v1 \in {Vana, PlainValue}, v2 \in {Vana, PlainValue} :
           /\ k1 # k2
           /\ opts = [p \in Procs |->
                          IF p = "p1" THEN [key |-> k1, value |-> v1]
                          ELSE [key |-> k2, value |-> v2]]
    /\ \E fileExists \in BOOLEAN, writeOk \in BOOLEAN :
           store = [mkdirOk |-> TRUE, writeOk |-> writeOk,
                    fileExists |-> fileExists,
                    content |-> IF fileExists
                                THEN GenerateToml(DEFAULT_CONFIG) ELSE <<>>,
                    keyringOk |-> TRUE, password |-> UndefSeq]
    /\ unprotectedConfig = [p \in Procs |-> NullConfig]
    /\ pc = [p \in Procs |-> "initialize"]
    /\ refinerIdNum = -1
    /\ cfg = NoConfiguration
    /\ lookups = <<>>
    /\ results = NewResults(-1)
    /\ clients = <<>>
    /\ requests = <<>>
    /\ answers = [ingestion |-> NotAsked, execution |-> NotAsked]
    /\ stdout = [p \in Procs |-> <<>>]
    /\ stderr = [p \in Procs |-> <<>>]
    /\ exitCode = [p \in Procs |-> -1]

\* the outer catch of ConfigSet.execute: the error is reported, exit code 1
RaceFails(p, message) ==
    /\ stderr' = [stderr EXCEPT ![p] = <<UnexpectedError(message)>>]
    /\ exitCode' = [exitCode EXCEPT ![p] = 1]
    /\ pc' = [pc EXCEPT ![p] = "done"]

\* ConfigSet.execute, line 55: configManager.initialize()
RaceInitialize(p) ==
    /\ pc[p] = "initialize"
    /\ LET initialized == Initialize(store)
       IN  IF initialized.threw
           THEN /\ RaceFails(p, "Failed to initialize config")
                /\ UNCHANGED store
           ELSE /\ store' = initialized.store
                /\ pc' = [pc EXCEPT ![p] = "read"]
                /\ UNCHANGED <<stderr, exitCode>>
    /\ UNCHANGED <<opts, unprotectedConfig, refinerIdNum, cfg, lookups,
                   results, clients, requests, answers, stdout>>

\* setUnprotectedConfig, lines 151-156: the file is read into the cache and
\* a network value is validated
RaceRead(p) ==
    /\ pc[p] = "read"
    /\ unprotectedConfig' =
           [unprotectedConfig EXCEPT
                ![p] = GetUnprotectedConfig(unprotectedConfig[p], store)]
    /\ IF opts[p].key = "network" /\ ~ValidNetwork(opts[p].value)
       THEN RaceFails(p, "Invalid network value")
       ELSE /\ pc' = [pc EXCEPT ![p] = "write"]
            /\ UNCHANGED <<stderr, exitCode>>
    /\ UNCHANGED <<opts, store, refinerIdNum, cfg, lookups, results, clients,
                   requests, answers, stdout>>

\* setUnprotectedConfig, lines 158-160: the key is assigned on the cached
\* object and the whole file is written from it
RaceWrite(p) ==
    /\ pc[p] = "write"
    /\ LET changed == SetKey(unprotectedConfig[p], opts[p].key, opts[p].value)
           written == WriteUnprotectedConfig(store, changed)
       IN  /\ unprotectedConfig' = [unprotectedConfig EXCEPT ![p] = changed]
           /\ IF written.threw
              THEN /\ RaceFails(p, "Failed to write config file")
                   /\ UNCHANGED store
              ELSE /\ store' = written.store
                   /\ pc' = [pc EXCEPT ![p] = "report"]
                   /\ UNCHANGED <<stderr, exitCode>>
    /\ UNCHANGED <<opts, refinerIdNum, cfg, lookups, results, clients,
                   requests, answers, stdout>>

\* ConfigSet.execute, lines 74-80: the success message and exit code 0
RaceReport(p) ==
    /\ pc[p] = "report"
    /\ stdout' = [stdout EXCEPT
                      ![p] = << Entry("success",
                                  "Set " \o opts[p].key
                                  \o " in ~/.vana/cli.config.toml") >>]
    /\ exitCode' = [exitCode EXCEPT ![p] = 0]
    /\ pc' = [pc EXCEPT ![p] = "done"]
    /\ UNCHANGED <<opts, store, unprotectedConfig, refinerIdNum, cfg,
                   lookups, results, clients, requests, answers, stderr>>

RaceNext ==
    \E p \in Procs :
        \/ RaceInitialize(p)
        \/ RaceRead(p)
        \/ RaceWrite(p)
        \/ RaceReport(p)

RaceSpec == RaceInit /\ [][RaceNext]_vars

-----------------------------------------------------------------------------
(* Vocabulary of the properties *)

\* the aggregator has returned
Aggregated == pc = "display" \/ (pc = "exited" /\ results.refiner_id >= 0)

\* the endpoint of a source was resolved
Resolved(source) ==
    IF source = "ingestion" THEN TruthySeq(cfg.queryApiUrl)
    ELSE TruthySeq(cfg.refineApiUrl)

\* the fetch of a source succeeded: a 2xx answer with a JSON body
FetchSucceeded(source) ==
    /\ answers[source] # NotAsked
    /\ ~answers[source].failed
    /\ answers[source].ok
    /\ answers[source].body.parses

\* the fetch of a source was attempted and failed
FetchFailed(source) ==
    /\ Aggregated
    /\ Resolved(source)
    /\ ~FetchSucceeded(source)

StatsOf(source) ==
    IF source = "ingestion" THEN results.ingestion_stats
    ELSE results.execution_stats

ErrorOf(source) ==
    IF source = "ingestion" THEN results.ingestion_error
    ELSE results.execution_error

Sources == {"ingestion", "execution"}

Other(source) == IF source = "ingestion" THEN "execution" ELSE "ingestion"

ClientOf(source) ==
    IF source = "ingestion" THEN "QueryEngineClient"
    ELSE "RefinementServiceClient"

\* the texts written with the given MessageHandler method
Texts(stream, kind) ==
    {stream[i].text : i \in {j \in 1..Len(stream) : stream[j].kind = kind}}

Elements(sequence) == {sequence[i] : i \in 1..Len(sequence)}

-----------------------------------------------------------------------------
(* C1..C10 *)

\* C1: when both endpoints are resolved and one fetch succeeds while the
\* other fails, the result holds the stats of the successful source (and no
\* error for it), the error of the failed source (and no stats for it), and
\* the command exits 0; either source may be the one that fails.
C1_PartialFailure ==
    \A s \in Sources :
        (/\ pc = "exited"
         /\ Resolved("ingestion") /\ Resolved("execution")
         /\ FetchSucceeded(s) /\ FetchFailed(Other(s)))
        => /\ Truthy(StatsOf(s))
           /\ StatsOf(s) = answers[s].body.text
           /\ ErrorOf(s) = Undefined
           /\ Truthy(ErrorOf(Other(s)))
           /\ StatsOf(Other(s)) = Undefined
           /\ exitCode = 0

\* C2: when a private key and at least one endpoint are resolved and every
\* configured fetch fails, the command exits 0 with the 'No data found'
\* warning, and writes neither an error nor the success message.
C2_AllFetchesFail ==
    (/\ pc = "exited"
     /\ Aggregated
     /\ \A s \in Sources : Resolved(s) => FetchFailed(s))
    => /\ exitCode = 0
       /\ MsgNoData \in Texts(stderr, "warning")
       /\ Texts(stderr, "error") = {}
       /\ Texts(stdout, "success") = {}

C2_Witness ==
    /\ pc = "exited"
    /\ FetchFailed("ingestion") /\ FetchFailed("execution")
    /\ answers.ingestion.status = "404" /\ answers.execution.failed

\* C3: in every combined result, the stats field and the error field of a
\* source are never both present.
C3_StatsXorError ==
    \A s \in Sources : ~(StatsOf(s) # Undefined /\ ErrorOf(s) # Undefined)

C3_Witness ==
    /\ Aggregated
    /\ StatsOf("ingestion") = StatsBody /\ ErrorOf("ingestion") = Undefined
    /\ ErrorOf("execution") = "Refiner not found"
    /\ StatsOf("execution") = Undefined

\* C4: after aggregation a source has neither stats nor error exactly when
\* no endpoint was resolved for it; a source with an endpoint is never
\* reported as 'Not configured', whatever its backend answered.
C4_AbsentIffNotConfigured ==
    Aggregated =>
        /\ \A s \in Sources :
               (~Truthy(StatsOf(s)) /\ ~Truthy(ErrorOf(s))) <=> ~Resolved(s)
        /\ Resolved("ingestion")
               => "Query Engine: Not configured" \notin Texts(stdout, "write")
        /\ Resolved("execution")
               => "Refinement Service: Not configured"
                      \notin Texts(stdout, "write")

\* C5: with only one endpoint resolved, the client of the other source is
\* never constructed or called, and the run exits 0 when the one configured
\* fetch succeeds.
C5_OnlyConfiguredSource ==
    \A s \in Sources :
        (Resolved(s) /\ ~Resolved(Other(s)))
        => /\ ClientOf(Other(s)) \notin Elements(clients)
           /\ \A i \in 1..Len(requests) : requests[i].source = s
           /\ (pc = "exited" /\ FetchSucceeded(s)) => exitCode = 0

\* C6: a run that exits 1 for an invalid id, a missing private key or a
\* missing endpoint has constructed no client and sent no request; a key
\* that cannot be resolved is reported as 'No private key provided.' before
\* any endpoint is looked up, and a run with a key but no endpoint is
\* reported as 'At least one API endpoint is required'.
KeyResolvable ==
    TruthySeq(opts.privateKey) \/ (store.keyringOk /\ TruthySeq(store.password))

EndpointResolvable ==
    \/ TruthySeq(opts.queryEndpoint)
    \/ TruthySeq(opts.refineEndpoint)
    \/ (\E i \in 1..Len(store.content) :
            /\ store.content[i].key = "query_engine_endpoint"
            /\ RemoveQuotes(store.content[i].value) # <<>>)

\* the run got past validateRefinerId and initialize()
ConfigurationRead ==
    /\ pc = "exited"
    /\ IdAccepted(opts.refinerId)
    /\ store.fileExists

C6_FailFast ==
    /\ (/\ pc = "exited" /\ exitCode = 1
        /\ Texts(stderr, "error")
               \cap {MsgInvalidId, MsgNoKey, MsgNoEndpoint} # {})
       => (clients = <<>> /\ requests = <<>>)
    /\ (ConfigurationRead /\ ~KeyResolvable)
       => /\ exitCode = 1
          /\ Texts(stderr, "error") = {MsgNoKey}
          /\ lookups = <<"wallet_private_key">>
    /\ (ConfigurationRead /\ KeyResolvable /\ ~EndpointResolvable)
       => /\ exitCode = 1
          /\ Texts(stderr, "error") = {MsgNoEndpoint}

C6_Witness ==
    /\ ConfigurationRead /\ KeyResolvable /\ ~EndpointResolvable
    /\ MsgNoEndpoint \in Texts(stderr, "error")
    /\ lookups = <<"wallet_private_key", "query_engine_endpoint",
                   "refinement_service_endpoint">>

\* C7: every --id string that is not the base-10 numeral of a non-negative
\* integer is rejected with exit code 1 and 'Invalid refiner ID. ...', before
\* the configuration is read and before any client is used.
C7_MalformedIdRejected ==
    ~IsDecimalNumeral(opts.refinerId)
    => /\ pc \in {"validateRefinerId", "exited"}
       /\ pc = "exited"
              => /\ exitCode = 1
                 /\ Texts(stderr, "error") = {MsgInvalidId}
                 /\ lookups = <<>> /\ clients = <<>> /\ requests = <<>>

C9_StoreFailureNotFatal ==
    (/\ IdAccepted(opts.refinerId)
     /\ TruthySeq(opts.privateKey)
     /\ TruthySeq(opts.queryEndpoint) \/ TruthySeq(opts.refineEndpoint)
     /\ pc = "exited")
    => clients # <<>>

\* C10: when both endpoints are resolved, both clients have been called by
\* the time the aggregator returns, and what is recorded for a source is
\* determined by the answer of its own backend alone.
C10_FetchesIndependent ==
    (Aggregated /\ Resolved("ingestion") /\ Resolved("execution"))
    => /\ clients = <<"QueryEngineClient", "RefinementServiceClient">>
       /\ \A s \in Sources :
              LET own == GetRefinerStats(s, <<>>, refinerIdNum,
                                         cfg.privateKey, answers[s])
              IN  /\ StatsOf(s) = own.value
                  /\ ErrorOf(s) = own.message

C10_Witness ==
    /\ pc = "display"
    /\ answers.ingestion.failed
    /\ Truthy(ErrorOf("ingestion"))
    /\ StatsOf("execution") = StatsBody

-----------------------------------------------------------------------------
(* C11..C20 *)

\* the request of a source is in flight: sent, and not yet answered
InFlight(source) ==
    IF source = "ingestion" THEN pc = "awaitIngestion"
    ELSE pc = "awaitExecution"

\* the request of a source has been sent
Requested(source) ==
    \E i \in 1..Len(requests) : requests[i].source = source

\* C11: the execution fetch can be started whether or not the ingestion
\* fetch has completed: while the ingestion request is in flight and an
\* execution endpoint is resolved, the step that starts the execution fetch
\* can be taken, so an ingestion fetch that never returns does not keep the
\* execution fetch from being initiated.
C11_ExecutionNotBlocked ==
    (InFlight("ingestion") /\ Resolved("execution"))
    => ENABLED FetchExecutionStats

\* the endpoint resolved for a source
EndpointOf(source) ==
    IF source = "ingestion" THEN cfg.queryApiUrl ELSE cfg.refineApiUrl

\* signing succeeds with the resolved key
SigningSucceeds == WalletAccepts(FormatPrivateKey(cfg.privateKey))

\* C12: in one run each configured backend receives at most one GET, for
\* {its endpoint}/stats/refiner/{id}, and a failed request is not sent again:
\* at most two requests are issued in all, and once the aggregator has
\* returned with a key that signs, exactly one was issued per configured
\* source and none for a source without endpoint.
C12_AtMostOneRequest ==
    /\ Len(requests) <= 2
    /\ \A s \in Sources :
           Cardinality({i \in 1..Len(requests) : requests[i].source = s}) <= 1
    /\ \A i \in 1..Len(requests) :
           /\ Resolved(requests[i].source)
           /\ requests[i].baseUrl = EndpointOf(requests[i].source)
           /\ requests[i].refinerId = refinerIdNum
    /\ (Aggregated /\ SigningSucceeds)
       => \A s \in Sources : Resolved(s) <=> Requested(s)

C12_Witness ==
    /\ pc = "exited"
    /\ Len(requests) = 2
    /\ answers.ingestion.failed /\ answers.ingestion # NotAsked
    /\ answers.execution.status = "404"

\* the source was answered with a non-2xx status
AnsweredWithError(source) ==
    /\ answers[source] # NotAsked
    /\ ~answers[source].failed
    /\ ~answers[source].ok

HttpStatusLine(response) ==
    "HTTP " \o response.status \o ": " \o response.statusText

\* C13: for every non-2xx response a client returns no stats and fails with
\* a message that is: the detail field, else the message field, of a body
\* that parses as JSON; the raw text of a body that does not parse; and
\* "HTTP {status}: {statusText}" for an empty body.  Both clients apply the
\* same rule.
C13_ErrorMessageRule ==
    /\ \A s \in Sources :
           AnsweredWithError(s)
           => LET body == answers[s].body
              IN  /\ StatsOf(s) = Undefined
                  /\ ErrorOf(s) =
                         IF body.parses
                         THEN IF Truthy(body.detail) THEN body.detail
                              ELSE body.message
                         ELSE IF body.text # "" THEN body.text
                         ELSE HttpStatusLine(answers[s])
    /\ (/\ AnsweredWithError("ingestion")
        /\ answers.ingestion = answers.execution)
       => ErrorOf("ingestion") = ErrorOf("execution")

\* C13, amended: as C13, and a body that parses as JSON but holds neither a
\* non-empty detail nor a non-empty message gives "HTTP {status}:
\* {statusText}", except the JSON value null, which gives its raw text.
C13_ErrorMessageRule_Amended ==
    /\ \A s \in Sources :
           AnsweredWithError(s)
           => LET body == answers[s].body
                  object == body.parses /\ body.text # "null"
              IN  /\ StatsOf(s) = Undefined
                  /\ ErrorOf(s) # Undefined /\ ErrorOf(s) # ""
                  /\ (object /\ Truthy(body.detail))
                     => ErrorOf(s) = body.detail
                  /\ (object /\ ~Truthy(body.detail) /\ Truthy(body.message))
                     => ErrorOf(s) = body.message
                  /\ (object /\ ~Truthy(body.detail) /\ ~Truthy(body.message))
                     => ErrorOf(s) = HttpStatusLine(answers[s])
                  /\ (~object /\ body.text # "")
                     => ErrorOf(s) = body.text
                  /\ body.text = ""
                     => ErrorOf(s) = HttpStatusLine(answers[s])
    /\ (/\ AnsweredWithError("ingestion")
        /\ answers.ingestion = answers.execution)
       => ErrorOf("ingestion") = ErrorOf("execution")

C13_Witness ==
    /\ AnsweredWithError("ingestion") /\ AnsweredWithError("execution")
    /\ answers.ingestion.body.text = "{\"error\":\"Forbidden\"}"
    /\ ErrorOf("ingestion") = "HTTP 500: Internal Server Error"
    /\ answers.execution.body.detail = "Refiner not found"
    /\ answers.execution.body.message = "Forbidden"
    /\ ErrorOf("execution") = "Refiner not found"

\* C14: whenever at least one fetch succeeds (2xx with a JSON body) the
\* command exits 0, in JSON mode and in human mode, whatever the shape of the
\* body: a body that lacks the statistics fields does not turn the run into
\* a failure.
C14_SuccessExitsZero ==
    (pc = "exited" /\ \E s \in Sources : FetchSucceeded(s))
    => /\ exitCode = 0
       /\ Texts(stderr, "error") = {}

\* C15: with --json, in a run that fetched, the only thing written to stdout
\* is the JSON serialization of the combined result, whatever --verbose and
\* the fetch outcomes are: nothing else is ever on stdout, the finished run
\* has written the serialization exactly once, and the warning of every
\* failed source is on stderr.
C15_JsonStdoutOnlyJson ==
    (opts.json /\ Aggregated)
    => /\ Elements(stdout) \subseteq {JsonDump}
       /\ pc = "exited" => stdout = <<JsonDump>>
       /\ \A s \in Sources :
              Truthy(ErrorOf(s))
              => (IF s = "ingestion" THEN "Query Engine: "
                  ELSE "Refinement Service: ") \o ErrorOf(s)
                     \in Texts(stderr, "warning")

\* the positions of stdout that hold the JSON dump of the combined result
DumpsWritten == {i \in 1..Len(stdout) : stdout[i] = JsonDump}

\* the run found data and went on to display it
DataDisplayed == pc = "exited" /\ Aggregated /\ ~NoData(results)

\* C16: when data is displayed, the JSON dump of the combined result is
\* written exactly once if --json or --include-raw is set and not at all
\* otherwise; with --include-raw alone it comes after the human-readable
\* report, right under the 'Raw API Responses' title; with --json the
\* option --include-raw adds nothing.
C16_DumpWrittenOnce ==
    DataDisplayed
    => /\ Cardinality(DumpsWritten) =
              IF opts.json \/ opts.includeRaw THEN 1 ELSE 0
       /\ (opts.includeRaw /\ ~opts.json)
          => \E i \in 2..Len(stdout) :
                 /\ stdout[i] = JsonDump
                 /\ stdout[i - 1] = Entry("write", "Raw API Responses")
                 /\ \E j \in 1..(i - 2) :
                        stdout[j] = Entry("write", "Comprehensive Statistics")
       /\ opts.json
          => "Raw API Responses" \notin Texts(stdout, "write")

\* the lines of stdout of one kind, in the order written
LinesOf(kind) == SelectSeq(stdout, LAMBDA l : l.kind = kind)

\* the error analysis has been written
AnalysisWritten == pc = "displayTechnicalDetails"

\* C17: in human mode, whenever the execution stats hold n >= 1 recent error
\* records, the report has a 'Recent Execution Errors' list with exactly the
\* first min(3, n) records, in the order of the server, whatever the
\* error-type tallies of either source contain.
C17_RecentErrorsListed ==
    (/\ AnalysisWritten
     /\ results.execution_stats.present
     /\ Len(results.execution_stats.recent_errors) >= 1)
    => LET recent == results.execution_stats.recent_errors
           n == Len(recent)
           shown == LinesOf("recent error")
       IN  /\ Line("heading", "Recent Execution Errors:", 0)
                  \in Elements(stdout)
           /\ Len(shown) = (IF n < 3 THEN n ELSE 3)
           /\ \A i \in 1..Len(shown) :
                  shown[i].text = recent[i] /\ shown[i].n = i

\* the place of the entry of a key in a mapping
PositionOf(mapping, type) ==
    CHOOSE k \in 1..Len(mapping) : mapping[k].type = type

\* the lines of one kind render the mapping: every entry exactly once, by
\* descending count, entries of equal count in the order of the mapping
RendersSorted(kind, mapping) ==
    LET lines == LinesOf(kind)
    IN  /\ Len(lines) = Len(mapping)
        /\ \A k \in 1..Len(mapping) :
               Cardinality({i \in 1..Len(lines) :
                                /\ lines[i].text = mapping[k].type
                                /\ lines[i].n = mapping[k].count}) = 1
        /\ \A i, j \in 1..Len(lines) :
               i < j
               => /\ lines[i].n >= lines[j].n
                  /\ lines[i].n = lines[j].n
                     => PositionOf(mapping, lines[i].text)
                            < PositionOf(mapping, lines[j].text)

\* C18: in the error-analysis section the error-type tallies of each source
\* are rendered in order of descending count, entries of equal count keep
\* the order of the source mapping, and every entry of the mapping is
\* rendered exactly once.
C18_TalliesSortedStable ==
    AnalysisWritten
    => /\ RendersSorted("query error",
                        results.ingestion_stats.query_errors_by_type)
       /\ RendersSorted("execution error",
                        results.execution_stats.error_types)

C18_Witness ==
    /\ AnalysisWritten
    /\ results.execution_stats.error_types =
           << [type |-> "VALIDATION_ERROR", count |-> 1],
              [type |-> "TIMEOUT_ERROR", count |-> 2],
              [type |-> "NETWORK_ERROR", count |-> 2] >>
    /\ LinesOf("execution error") =
           << Line("execution error", "TIMEOUT_ERROR", 2),
              Line("execution error", "NETWORK_ERROR", 2),
              Line("execution error", "VALIDATION_ERROR", 1) >>
    /\ results.ingestion_stats.query_errors_by_type =
           << [type |-> "TIMEOUT_ERROR", count |-> 1] >>
    /\ Len(LinesOf("query error")) = 1

\* the masked form written for the private key
MaskedKey == stdout[1].text

\* one string occurs in another
Contains(string, part) ==
    \E i \in 1..(Len(string) - Len(part) + 1) :
        SubSeq(string, i, i + Len(part) - 1) = part

\* C19: the masked form of a non-empty private key never contains the full
\* key and never reveals every character of it: a key of more than 10
\* characters is shown as its first 6 characters, '...' and its last 4, and
\* a shorter key has strictly fewer characters revealed than it has.
C19_MaskHidesKey ==
    (pc = "fetchIngestion" /\ stdout # <<>>)
    => LET key == cfg.privateKey
           n == Len(key)
       IN  /\ ~Contains(MaskedKey, key)
           /\ Len(MaskedKey) - Len(Ellipsis) < n
           /\ n > 10
              => MaskedKey = SubSeq(key, 1, 6) \o Ellipsis
                             \o SubSeq(key, n - 3, n)

\* a key without its 0x prefix, if it has one
WithoutPrefix(key) ==
    IF Len(key) >= 2 /\ SubSeq(key, 1, 2) = <<"0", "x">>
    THEN SubSeq(key, 3, Len(key))
    ELSE key

\* C20: the signature sent as X-Refiner-Signature is a function of the
\* 0x-normalized private key and of the decimal string of the refiner id
\* alone: it is the same for both backends, the same in every run with that
\* key and id, and the same whether or not the key was given with its 0x
\* prefix.
C20_SignatureDeterministic ==
    /\ \A i \in 1..Len(requests) :
           requests[i].signature =
               [key |-> <<"0", "x">> \o WithoutPrefix(cfg.privateKey),
                message |-> NumberToString(refinerIdNum)]
    /\ \A i, j \in 1..Len(requests) :
           requests[i].signature = requests[j].signature

C20_Witness ==
    /\ Len(requests) = 2
    /\ requests[1].source = "ingestion" /\ requests[2].source = "execution"
    /\ cfg.privateKey = KeyBare
    /\ requests[1].signature.key = KeyPrefixed
    /\ requests[2].signature.message = <<"4", "5">>

-----------------------------------------------------------------------------
(* C21..C30 *)

\* the resolved private key is malformed: not 32 bytes of hex once prefixed
MalformedKey ==
    /\ cfg # NoConfiguration
    /\ <<"0", "x">> \o WithoutPrefix(cfg.privateKey) # KeyPrefixed

\* C21: with a malformed private key no request is sent to any backend in
\* the run; the message of the signing failure is recorded as the error of
\* every configured source and a warning naming that source is written; and
\* no request of any run carries a signature made with a malformed key.
C21_MalformedKeyNotSent ==
    /\ MalformedKey
       => /\ requests = <<>>
          /\ Aggregated
             => \A s \in Sources :
                    Resolved(s)
                    => /\ ErrorOf(s) = "invalid private key"
                       /\ StatsOf(s) = Undefined
                       /\ (IF s = "ingestion" THEN "Query Engine: "
                           ELSE "Refinement Service: ") \o ErrorOf(s)
                              \in Texts(stderr, "warning")
    /\ \A i \in 1..Len(requests) : requests[i].signature.key = KeyPrefixed

C21_Witness ==
    /\ pc = "exited"
    /\ cfg.privateKey = KeyLong
    /\ Resolved("ingestion") /\ Resolved("execution")
    /\ requests = <<>>
    /\ clients = <<"QueryEngineClient", "RefinementServiceClient">>
    /\ ErrorOf("ingestion") = "invalid private key"
    /\ ErrorOf("execution") = "invalid private key"

\* an exception was raised outside the per-source try blocks: initialize()
\* threw, or the human-readable display threw on a body without the
\* statistics fields
InitializeThrew ==
    /\ IdAccepted(opts.refinerId)
    /\ ~store.mkdirOk \/ (~store.fileExists /\ ~store.writeOk)

DisplayThrew ==
    /\ Aggregated /\ ~NoData(results) /\ ~opts.json
    /\ \E s \in Sources : StatsOf(s) = "{}"

\* the top-level catch has reported: 'Unexpected error: ...' on stderr,
\* then the troubleshooting steps as the last thing on stdout
ReportedUnexpected ==
    /\ \E i \in 1..Len(stderr) :
           /\ stderr[i].kind = "error"
           /\ stderr[i].text \in
                  { MsgUnexpected \o "Failed to initialize config",
                    MsgUnexpected \o "Cannot read properties of undefined" }
    /\ stdout # <<>>
    /\ stdout[Len(stdout)] = Entry("write", "Troubleshooting")

\* C22: provided every external call returns or throws, the command always
\* terminates, with exit code 0 or 1; an exception raised while the
\* configuration is initialized or the report is rendered is caught at the
\* top level, reported as 'Unexpected error: ...' followed by the
\* troubleshooting steps, and gives exit code 1.
C22_Terminates ==
    /\ <>(pc = "exited")
    /\ [](pc = "exited"
          => /\ exitCode \in {0, 1}
             /\ (InitializeThrew \/ DisplayThrew)
                => (ReportedUnexpected /\ exitCode = 1)
             /\ ReportedUnexpected => exitCode = 1)
    /\ [](pc # "exited" => exitCode = -1)

C22_Witness ==
    /\ pc = "exited"
    /\ DisplayThrew
    /\ ReportedUnexpected
    /\ exitCode = 1
    /\ FetchSucceeded("execution")

\* the last call was made with this method or command, and returned
LastCall(ops) == opts.op \in ops /\ ~results.threw

\* the last call was made with this method or command, and threw
LastThrew(ops, message) ==
    opts.op \in ops /\ results.threw /\ results.message = message

\* the content of the config file, <<>> standing for no file
FileOf(st) == IF st.fileExists THEN st.content ELSE <<>>

\* the machine the last call started from, with the disk and the keyring
\* as available as they are now
Before ==
    [results.store EXCEPT !.writeOk = store.writeOk,
                          !.keyringOk = store.keyringOk]

\* what getConfigValue returns for every key: on the living instance, and
\* in a process that starts now
Values(cache, st) == [k \in ConfigKeys |-> GetConfigValue(k, cache, st)]
SameInstance == Values(unprotectedConfig, store)
FreshProcess == Values(NullConfig, store)

\* C23: once setConfig(k, v) has returned for an unprotected key k,
\* getConfigValue(k) is v on the same instance and in a process that
\* starts afterwards and parses the written file.
C23_SetThenGet ==
    (LastCall({"setConfig"}) /\ opts.key \in UnprotectedKeys)
    => /\ SameInstance[opts.key] = opts.value
       /\ FreshProcess[opts.key] = opts.value

NetworkValues == {Vana, DEFAULT_CONFIG.network}

\* setConfig('network', v) with v neither 'vana' nor 'moksha' throws
\* 'Invalid network value' and changes neither the file nor any value
\* that getConfigValue returns
RejectionChangesNothing ==
    (opts.op = "setConfig" /\ opts.key = "network"
     /\ opts.value \notin NetworkValues)
    => /\ LastThrew({"setConfig"}, "Invalid network value")
       /\ FileOf(store) = FileOf(results.store)
       /\ SameInstance = Values(results.cache, Before)

\* C24: an invalid network value is rejected without any change, and the
\* network value is 'vana' or 'moksha' in every state, for the living
\* instance and for a process that starts now.
C24_NetworkAlwaysValid ==
    /\ RejectionChangesNothing
    /\ SameInstance["network"] \in NetworkValues
    /\ FreshProcess["network"] \in NetworkValues

C26_Created ==
    /\ LastCall({"initialize"})
    /\ ~results.store.fileExists
    /\ store.fileExists

\* C27: neither the lines of the config file nor the cached configuration
\* ever have an entry for wallet_private_key, and a setConfig of
\* wallet_private_key that returns has put the value in the keyring and
\* has touched neither the file nor the cache.
C27_KeyOnlyInKeyring ==
    /\ \A i \in 1..Len(store.content) :
           store.content[i].key # "wallet_private_key"
    /\ "wallet_private_key" \notin DOMAIN unprotectedConfig
    /\ (LastCall({"setConfig"}) /\ opts.key = "wallet_private_key")
           => /\ store.password = opts.value
              /\ FileOf(store) = FileOf(results.store)
              /\ unprotectedConfig \in {results.cache, NullConfig}

C27_Witness ==
    /\ LastCall({"setConfig"})
    /\ opts.key = "wallet_private_key"
    /\ opts.value = QuotedValue
    /\ store.password = QuotedValue
    /\ store.fileExists
    /\ unprotectedConfig # NullConfig

\* C29: when setConfig of an unprotected key throws because the file
\* cannot be written, every value getConfigValue returns on the same
\* instance is what it was before the call.
C29_FailedWriteChangesNothing ==
    (LastThrew({"setConfig"}, "Failed to write config file")
     /\ ~IsProtectedKey(opts.key))
    => SameInstance = Values(results.cache, Before)

\* the messages that `config init --reset` writes on success
ResetReported ==
    /\ LastCall({"config init --reset"})
    /\ exitCode = 0
    /\ Entry("success", "Configuration reset to defaults") \in Elements(stdout)
    /\ Entry("warning", MsgSecretsCleared) \in Elements(stderr)

\* C25: once `config init --reset` has reported success and the warning
\* that protected values have been cleared, every unprotected key reads as
\* its default and wallet_private_key reads as nothing, on the living
\* instance and in every process that starts afterwards.
C25_ResetClearsAll ==
    ResetReported
    => /\ \A k \in UnprotectedKeys :
              /\ SameInstance[k] = DEFAULT_CONFIG[k]
              /\ FreshProcess[k] = DEFAULT_CONFIG[k]
       /\ FreshProcess["wallet_private_key"] = UndefSeq

\* the unprotected part of C25 alone
ResetRestoresDefaults ==
    ResetReported
    => \A k \in UnprotectedKeys : FreshProcess[k] = DEFAULT_CONFIG[k]

\* the success message of `config set`
SetReported ==
    /\ LastCall({"config set"})
    /\ exitCode = 0
    /\ stdout = << Entry("success",
                     "Set " \o opts.key \o " in "
                     \o (IF IsProtectedKey(opts.key) THEN "OS keyring"
                         ELSE "~/.vana/cli.config.toml")) >>

\* C28: once `config set k v` has reported success for a key kept in the
\* config file, a process that starts afterwards reads v for k; for
\* refinement_service_endpoint, a later `stats refiner` run without
\* --refine-endpoint resolves v as its execution endpoint.
C28_SetIsReadLater ==
    (SetReported /\ ~IsProtectedKey(opts.key))
    => /\ FreshProcess[opts.key] = opts.value
       /\ (opts.key = "refinement_service_endpoint" /\ cfg # NoConfiguration)
          => cfg.refineApiUrl = opts.value

\* both processes have reported success
BothReported ==
    \A p \in Procs :
        /\ pc[p] = "done"
        /\ exitCode[p] = 0
        /\ stdout[p] # <<>>

\* C30: once two concurrent `config set` processes on two different
\* unprotected keys have both reported success, the config file holds
\* both new values, under every interleaving of their steps.
C30_NoLostUpdate ==
    BothReported
    => \A p \in Procs : ParseToml(store.content)[opts[p].key] = opts[p].value

=============================================================================
